---- MODULE Spec2Model ----
(***************************************************************************)
(* H4X image editor: the App component's session state and handlers        *)
(* (src/unnamed/part_000) and the payload encoder fileToGenerativePart     *)
(* (src/utils/fileUtils.ts).                                               *)
(*                                                                         *)
(* Strings that the code parses or builds (data URLs, MIME types, base-64  *)
(* payloads) are sequences of one-character strings.  Strings that the     *)
(* code only stores and compares (prompt, error messages) are TLA+         *)
(* strings.  A nullable value is a sequence of length at most one: None    *)
(* is null/undefined, Some(v) is the value v.                              *)
(*                                                                         *)
(* State updates made by one handler run, or by one continuation of the    *)
(* async handleGenerate, are committed together (React batches them into   *)
(* one render), so each such run is one action.                            *)
(***************************************************************************)
EXTENDS Integers, Sequences, FiniteSets, Bags, TLC

VARIABLES
    originalImageFile,      \* useState<File | null>            part_000:75
    originalImageDataUrl,   \* useState<string | null>          part_000:76
    editedImageData,        \* useState<string | null>          part_000:77
    prompt,                 \* useState<string>                 part_000:78
    isLoading,              \* useState<boolean>                part_000:79
    error,                  \* useState<string | null>          part_000:80
    previewReads,           \* bag of the files whose preview FileReader, started
                            \* by handleFileSelect, has not ended
    cycles,                 \* bag of the handleGenerate invocations suspended at
                            \* an await: stage "reading" waits for
                            \* fileToGenerativePart, stage "calling" has invoked
                            \* editImageWithGemini once and waits for it
    link                    \* href of the last anchor clicked by handleDownload

vars == <<originalImageFile, originalImageDataUrl, editedImageData, prompt,
          isLoading, error, previewReads, cycles, link>>

session == <<originalImageFile, originalImageDataUrl, editedImageData, prompt,
             isLoading, error>>

None == << >>
Some(v) == <<v>>

----------------------------------------------------------------------------
(* Bounds of the model *)

MaxCycles == 2          \* handleGenerate invocations suspended at once
MaxPreviewReads == 2    \* preview FileReaders pending at once
MaxRawLen == 5          \* length of the arbitrary read results of SpecEnc
MaxMimeLen == 2         \* length of <mime> in the read results of SpecEnc
MaxPayloadLen == 3      \* length of <payload> in the read results of SpecEnc

----------------------------------------------------------------------------
(* Strings *)

DataPrefix == <<"d", "a", "t", "a", ":">>
Base64Sep == <<";", "b", "a", "s", "e", "6", "4", ",">>

\* The template literal of part_000:105.
DataUrl(mimeType, base64) == DataPrefix \o mimeType \o Base64Sep \o base64

\* All sequences over alphabet of length lo..hi.
SeqsOf(alphabet, lo, hi) == UNION {[1..n -> alphabet] : n \in lo..hi}

ValidationMsg == "Please upload an image and provide a modification prompt."
UnknownErrorMsg == "An unknown error occurred while communicating with the AI."
ReadFailedMsg == "Failed to read file as data URL."
InvalidFormatMsg == "Invalid data URL format."
NoMimeMsg == "Could not extract MIME type from data URL."

----------------------------------------------------------------------------
(* Files and the host's FileReader.                                        *)
(* A file is identified by what FileReader.readAsDataURL does with it:     *)
(* ev = "load" with reader.result, or ev = "error" (result null).          *)

LoadOf(s) == [ev |-> "load", result |-> Some(s)]
ReadFailure == [ev |-> "error", result |-> None]

FilePng == [name |-> "a.png", read |-> LoadOf(DataUrl(<<"p">>, <<"x">>))]
FileJpeg == [name |-> "b.jpg", read |-> LoadOf(DataUrl(<<"j">>, <<"y">>))]
FileEmpty == [name |-> "empty.png", read |-> LoadOf(DataUrl(<<"p">>, << >>))]
FileUnreadable == [name |-> "gone.png", read |-> ReadFailure]

Files == {FilePng, FileJpeg, FileEmpty, FileUnreadable}

Prompts == {"", "neon"}

\* The read results of the encoder's specification SpecEnc: the strings
\* "data:<mime>;base64,<payload>" and arbitrary short strings.
MimeChars == {"p", "/"}
PayloadChars == {"x", ","}
RawChars == {"a", ":", ";", ","}

Mimes == SeqsOf(MimeChars, 1, MaxMimeLen)
Payloads == SeqsOf(PayloadChars, 1, MaxPayloadLen)

EncFiles ==
    {[name |-> "in", read |-> LoadOf(DataUrl(m, p))] : m \in Mimes, p \in Payloads}
    \cup {[name |-> "in", read |-> LoadOf(s)] : s \in SeqsOf(RawChars, 0, MaxRawLen)}
    \cup {[name |-> "in", read |-> [ev |-> "load", result |-> None]],
          [name |-> "in", read |-> ReadFailure]}

\* What editImageWithGemini can settle with.
ReturnedPayloads == {<<"r">>}
ServiceErrors == {[message |-> Some("quota exceeded")],
                  [message |-> Some("")],
                  [message |-> None]}

----------------------------------------------------------------------------
(* fileToGenerativePart, src/utils/fileUtils.ts *)

\* String.prototype.split(','): the segments between all commas.
RECURSIVE SplitComma(_)
SplitComma(s) ==
    IF \E i \in 1..Len(s) : s[i] = ","
    THEN LET i == CHOOSE k \in 1..Len(s) :
                      s[k] = "," /\ \A j \in 1..(k - 1) : s[j] # ","
         IN <<SubSeq(s, 1, i - 1)>> \o SplitComma(SubSeq(s, i + 1, Len(s)))
    ELSE <<s>>

\* header.match(/:(.*?);/): capture group 1 of the leftmost match, lazily
\* extended: from the first ':' to the first ';' after it.  None: no match.
MatchMime(header) ==
    LET colons == {i \in 1..Len(header) : header[i] = ":"}
    IN IF colons = {} THEN None
       ELSE LET c == CHOOSE i \in colons : \A k \in colons : i <= k
                semis == {j \in (c + 1)..Len(header) : header[j] = ";"}
            IN IF semis = {} THEN None
               ELSE LET e == CHOOSE j \in semis : \A k \in semis : j <= k
                    IN Some(SubSeq(header, c + 1, e - 1))

Resolved(v) == [settled |-> "resolve", value |-> v]
Rejected(e) == [settled |-> "reject", error |-> e]

\* reader.onload without the test of the captured group (fileUtils.ts:15
\* testing !mimeTypeMatch only).
OnLoadParse_AllowsEmptyMime(result) ==
    IF result = None
    THEN Rejected([message |-> Some(ReadFailedMsg)])
    ELSE LET parts == SplitComma(result[1])
             header == parts[1]
             data == IF Len(parts) >= 2 THEN Some(parts[2]) ELSE None
         IN IF header = << >> \/ data = None \/ data = Some(<< >>)
            THEN Rejected([message |-> Some(InvalidFormatMsg)])
            ELSE LET mimeTypeMatch == MatchMime(header)
                 IN IF mimeTypeMatch = None
                    THEN Rejected([message |-> Some(NoMimeMsg)])
                    ELSE Resolved([mimeType |-> mimeTypeMatch[1],
                                   data |-> data[1]])

\* reader.onload, fileUtils.ts:4-20, on reader.result = result.
OnLoadParse(result) ==
    IF result = None
    THEN Rejected([message |-> Some(ReadFailedMsg)])
    ELSE LET parts == SplitComma(result[1])
             header == parts[1]
             data == IF Len(parts) >= 2 THEN Some(parts[2]) ELSE None
         IN IF header = << >> \/ data = None \/ data = Some(<< >>)
            THEN Rejected([message |-> Some(InvalidFormatMsg)])
            ELSE LET mimeTypeMatch == MatchMime(header)
                 IN IF mimeTypeMatch = None \/ mimeTypeMatch = Some(<< >>)
                    THEN Rejected([message |-> Some(NoMimeMsg)])
                    ELSE Resolved([mimeType |-> mimeTypeMatch[1],
                                   data |-> data[1]])

\* The promise of fileToGenerativePart(file): onload parses, onerror rejects
\* with the reader's ProgressEvent, which carries no message.
FileToGenerativePart(file) ==
    IF file.read.ev = "load"
    THEN OnLoadParse(file.read.result)
    ELSE Rejected([message |-> None])

\* The outcome of fileToGenerativePart for each file: the promise depends on
\* the file alone (fileUtils.ts:1-23 reads nothing else).
EncoderOutcome == [file \in Files \cup EncFiles |-> FileToGenerativePart(file)]


----------------------------------------------------------------------------
(* The App component, src/unnamed/part_000 *)

One(x) == SetToBag({x})

Init ==
    /\ originalImageFile = None
    /\ originalImageDataUrl = None
    /\ editedImageData = None
    /\ prompt = ""
    /\ isLoading = FALSE
    /\ error = None
    /\ previewReads = EmptyBag
    /\ cycles = EmptyBag
    /\ link = None

\* A file selection that also abandons the suspended invocations.
HandleFileSelect_Cancels(file) ==
    /\ BagCardinality(previewReads) < MaxPreviewReads
    /\ originalImageFile' = Some(file)
    /\ editedImageData' = None
    /\ error' = None
    /\ isLoading' = FALSE
    /\ cycles' = EmptyBag
    /\ previewReads' = previewReads (+) One(file)
    /\ UNCHANGED <<originalImageDataUrl, prompt, link>>

\* handleFileSelect that also resets isLoading.
HandleFileSelect_ResetsBusy(file) ==
    /\ BagCardinality(previewReads) < MaxPreviewReads
    /\ originalImageFile' = Some(file)
    /\ editedImageData' = None
    /\ error' = None
    /\ isLoading' = FALSE
    /\ previewReads' = previewReads (+) One(file)
    /\ UNCHANGED <<originalImageDataUrl, prompt, cycles, link>>

\* handleFileSelect(file), part_000:82-91.
HandleFileSelect(file) ==
    /\ BagCardinality(previewReads) < MaxPreviewReads
    /\ originalImageFile' = Some(file)
    /\ editedImageData' = None
    /\ error' = None
    /\ previewReads' = previewReads (+) One(file)
    /\ UNCHANGED <<originalImageDataUrl, prompt, isLoading, cycles, link>>

\* reader.onloadend of a pending preview reader of file, part_000:87-89:
\* reader.result is the data URL after a load and null after an error.
PreviewLoadEnd(file) ==
    /\ BagIn(file, previewReads)
    /\ originalImageDataUrl' = file.read.result
    /\ previewReads' = previewReads (-) One(file)
    /\ UNCHANGED <<originalImageFile, editedImageData, prompt, isLoading,
                   error, cycles, link>>

\* An onChange that also clears the error and the result.
SetPrompt_ClearsOutcome(value) ==
    /\ prompt' = value
    /\ error' = None
    /\ editedImageData' = None
    /\ UNCHANGED <<originalImageFile, originalImageDataUrl, isLoading,
                   previewReads, cycles, link>>

\* The textarea's onChange, part_000:144.
SetPrompt(value) ==
    /\ prompt' = value
    /\ UNCHANGED <<originalImageFile, originalImageDataUrl, editedImageData,
                   isLoading, error, previewReads, cycles, link>>

\* handleGenerate with the validation of part_000:94 testing the file only.
HandleGenerate_FileCheckOnly ==
    IF originalImageFile = None
    THEN /\ error' = Some(ValidationMsg)
         /\ UNCHANGED <<originalImageFile, originalImageDataUrl,
                        editedImageData, prompt, isLoading, previewReads,
                        cycles, link>>
    ELSE /\ BagCardinality(cycles) < MaxCycles
         /\ isLoading' = TRUE
         /\ error' = None
         /\ editedImageData' = None
         /\ cycles' = cycles (+) One([file |-> originalImageFile[1],
                                      prompt |-> prompt,
                                      stage |-> "reading",
                                      imagePart |-> None])
         /\ UNCHANGED <<originalImageFile, originalImageDataUrl, prompt,
                        previewReads, link>>

\* handleGenerate without the setError(null) and setEditedImageData(null)
\* of part_000:99-100.
HandleGenerate_KeepsOutcome ==
    IF originalImageFile = None \/ prompt = ""
    THEN /\ error' = Some(ValidationMsg)
         /\ UNCHANGED <<originalImageFile, originalImageDataUrl,
                        editedImageData, prompt, isLoading, previewReads,
                        cycles, link>>
    ELSE /\ BagCardinality(cycles) < MaxCycles
         /\ isLoading' = TRUE
         /\ cycles' = cycles (+) One([file |-> originalImageFile[1],
                                      prompt |-> prompt,
                                      stage |-> "reading",
                                      imagePart |-> None])
         /\ UNCHANGED <<originalImageFile, originalImageDataUrl, prompt,
                        editedImageData, error, previewReads, link>>

\* handleGenerate up to its first await, part_000:93-103.  The invocation
\* keeps the originalImageFile and prompt of the render it was created in.
HandleGenerate ==
    IF originalImageFile = None \/ prompt = ""
    THEN /\ error' = Some(ValidationMsg)
         /\ UNCHANGED <<originalImageFile, originalImageDataUrl,
                        editedImageData, prompt, isLoading, previewReads,
                        cycles, link>>
    ELSE /\ BagCardinality(cycles) < MaxCycles
         /\ isLoading' = TRUE
         /\ error' = None
         /\ editedImageData' = None
         /\ cycles' = cycles (+) One([file |-> originalImageFile[1],
                                      prompt |-> prompt,
                                      stage |-> "reading",
                                      imagePart |-> None])
         /\ UNCHANGED <<originalImageFile, originalImageDataUrl, prompt,
                        previewReads, link>>

\* The fallback taken for a missing message only (?? in place of ||).
ErrorText_NullishOnly(e) ==
    IF e.message = None
    THEN UnknownErrorMsg
    ELSE e.message[1]

\* e.message || "An unknown error ...", part_000:108.
ErrorText(e) ==
    IF e.message = None \/ e.message = Some("")
    THEN UnknownErrorMsg
    ELSE e.message[1]

\* A catch that starts the invocation again instead of ending it.
CatchFinally_Retries(c, e) ==
    /\ error' = Some(ErrorText(e))
    /\ isLoading' = FALSE
    /\ cycles' = (cycles (-) One(c))
                    (+) One([c EXCEPT !.stage = "reading", !.imagePart = None])
    /\ UNCHANGED <<originalImageFile, originalImageDataUrl, editedImageData,
                   prompt, previewReads, link>>

\* catch and finally of the suspended invocation c, part_000:106-111.
CatchFinally(c, e) ==
    /\ error' = Some(ErrorText(e))
    /\ isLoading' = FALSE
    /\ cycles' = cycles (-) One(c)
    /\ UNCHANGED <<originalImageFile, originalImageDataUrl, editedImageData,
                   prompt, previewReads, link>>

\* The continuation after the encoder reading the file and the prompt of the
\* current render instead of those of the render handleGenerate ran in.
EncoderSettles_ReadsCurrent(c) ==
    /\ BagIn(c, cycles)
    /\ c.stage = "reading"
    /\ LET r == EncoderOutcome[originalImageFile[1]]
       IN IF r.settled = "resolve"
          THEN /\ cycles' = (cycles (-) One(c))
                              (+) One([c EXCEPT !.stage = "calling",
                                                !.file = originalImageFile[1],
                                                !.prompt = prompt,
                                                !.imagePart = Some(r.value)])
               /\ UNCHANGED <<originalImageFile, originalImageDataUrl,
                              editedImageData, prompt, isLoading, error,
                              previewReads, link>>
          ELSE CatchFinally(c, r.error)

\* The encoder's promise settles for the suspended invocation c: on
\* resolve the invocation goes on to call editImageWithGemini with
\* (imagePart.data, imagePart.mimeType, prompt) and suspends again
\* (part_000:103-104); on reject it runs catch and finally.
EncoderSettles(c) ==
    /\ BagIn(c, cycles)
    /\ c.stage = "reading"
    /\ LET r == EncoderOutcome[c.file]
       IN IF r.settled = "resolve"
          THEN /\ cycles' = (cycles (-) One(c))
                              (+) One([c EXCEPT !.stage = "calling",
                                                !.imagePart = Some(r.value)])
               /\ UNCHANGED <<originalImageFile, originalImageDataUrl,
                              editedImageData, prompt, isLoading, error,
                              previewReads, link>>
          ELSE CatchFinally(c, r.error)

\* The result built from the submitted image's own data instead of the
\* returned payload.
CallResolves_EchoesInput(c, resultBase64) ==
    /\ BagIn(c, cycles)
    /\ c.stage = "calling"
    /\ editedImageData' = Some(DataUrl(c.imagePart[1].mimeType,
                                       c.imagePart[1].data))
    /\ isLoading' = FALSE
    /\ cycles' = cycles (-) One(c)
    /\ UNCHANGED <<originalImageFile, originalImageDataUrl, prompt, error,
                   previewReads, link>>

\* editImageWithGemini resolves with resultBase64 for the suspended
\* invocation c, part_000:104-105 and 109-111.
CallResolves(c, resultBase64) ==
    /\ BagIn(c, cycles)
    /\ c.stage = "calling"
    /\ editedImageData' = Some(DataUrl(c.imagePart[1].mimeType, resultBase64))
    /\ isLoading' = FALSE
    /\ cycles' = cycles (-) One(c)
    /\ UNCHANGED <<originalImageFile, originalImageDataUrl, prompt, error,
                   previewReads, link>>

\* editImageWithGemini rejects with e for the suspended invocation c,
\* part_000:106-111.
CallRejects(c, e) ==
    /\ BagIn(c, cycles)
    /\ c.stage = "calling"
    /\ CatchFinally(c, e)

\* handleDownload without the early return of part_000:115.
HandleDownload_NoGuard ==
    /\ link' = editedImageData
    /\ UNCHANGED <<originalImageFile, originalImageDataUrl,
                   editedImageData, prompt, isLoading, error,
                   previewReads, cycles>>

\* handleDownload, part_000:114-122.
HandleDownload ==
    IF editedImageData = None
    THEN UNCHANGED vars
    ELSE /\ link' = editedImageData
         /\ UNCHANGED <<originalImageFile, originalImageDataUrl,
                        editedImageData, prompt, isLoading, error,
                        previewReads, cycles>>

\* The disabled attribute without its isLoading disjunct.
GenerateDisabled_NotWhileBusy == originalImageFile = None \/ prompt = ""

\* The Generate button's disabled attribute, part_000:153.
GenerateDisabled == isLoading \/ originalImageFile = None \/ prompt = ""

\* The render guard of the result image and the Download button,
\* part_000:167.
DownloadOffered == ~isLoading /\ error = None /\ editedImageData # None

\* A click on the Generate button, part_000:151-153.
ClickGenerate == ~GenerateDisabled /\ HandleGenerate

\* A click on the Download button, part_000:167-177.
ClickDownload == DownloadOffered /\ HandleDownload

----------------------------------------------------------------------------
(* Specifications *)

SelectFile == \E file \in Files : HandleFileSelect(file)
PreviewEnds == \E file \in BagToSet(previewReads) : PreviewLoadEnd(file)
EditPrompt == \E value \in Prompts : SetPrompt(value)
EncoderDone == \E c \in BagToSet(cycles) : EncoderSettles(c)
CallReturns ==
    \E c \in BagToSet(cycles) : \E p \in ReturnedPayloads : CallResolves(c, p)
CallFails ==
    \E c \in BagToSet(cycles) : \E e \in ServiceErrors : CallRejects(c, e)

\* The handlers as operations: handleGenerate and handleDownload can be
\* invoked in any state.
Next ==
    \/ SelectFile
    \/ PreviewEnds
    \/ EditPrompt
    \/ HandleGenerate
    \/ EncoderDone
    \/ CallReturns
    \/ CallFails
    \/ HandleDownload

Spec == Init /\ [][Next]_vars

\* The rendered application: handleGenerate and handleDownload run only
\* from their buttons.
NextUI ==
    \/ SelectFile
    \/ PreviewEnds
    \/ EditPrompt
    \/ ClickGenerate
    \/ EncoderDone
    \/ CallReturns
    \/ CallFails
    \/ ClickDownload

SpecUI == Init /\ [][NextUI]_vars

\* The rendered application when every pending promise of handleGenerate
\* settles: the FileReader of the encoder always fires load or error, and
\* the call to the service is assumed to return or throw (part_000:103-104
\* await both, with no timeout).
SpecUIFair ==
    /\ SpecUI
    /\ WF_vars(EncoderDone)
    /\ WF_vars(CallReturns \/ CallFails)

\* The encoder on every read result of EncFiles: a file is selected and its
\* preview has ended, the prompt is typed, and Generate is clicked.
InitEnc ==
    /\ originalImageFile \in {Some(f) : f \in EncFiles}
    /\ originalImageDataUrl = originalImageFile[1].read.result
    /\ editedImageData = None
    /\ prompt = "neon"
    /\ isLoading = FALSE
    /\ error = None
    /\ previewReads = EmptyBag
    /\ cycles = EmptyBag
    /\ link = None

NextEnc ==
    \/ ClickGenerate
    \/ EncoderDone
    \/ CallReturns
    \/ CallFails

SpecEnc == InitEnc /\ [][NextEnc]_vars

----------------------------------------------------------------------------
(* Properties *)

\* Number of suspended invocations in a given stage.
InStage(stage) ==
    LET S == {c \in BagToSet(cycles) : c.stage = stage}
    IN BagCardinality([c \in S |-> CopiesIn(c, cycles)])

\* C1: a generate action taken while no file is selected or while the
\* prompt is empty does not enter Busy (isLoading is left as it was, so it
\* stays false when it was false), starts neither an encoder read nor an
\* outbound call (the bag of suspended invocations is unchanged), and sets
\* error to the validation message.
C1_ValidationRejects ==
    [][(HandleGenerate /\ (originalImageFile = None \/ prompt = ""))
        => /\ isLoading' = isLoading
           /\ cycles' = cycles
           /\ error' = Some("Please upload an image and provide a modification prompt.")
      ]_vars

\* A file is selected, the prompt is empty, and the validation error shows
\* with nothing in flight.
C1_Witness ==
    /\ originalImageFile # None
    /\ prompt = ""
    /\ error = Some(ValidationMsg)
    /\ ~isLoading
    /\ cycles = EmptyBag

\* C2: with generate triggered only through its button, at most one
\* handleGenerate invocation is suspended at any time, hence at most one
\* outbound call is in flight, and no step taken while isLoading starts or
\* queues another invocation.
C2_OneCallInFlight ==
    /\ [](BagCardinality(cycles) <= 1 /\ InStage("calling") <= 1)
    /\ [][isLoading => BagCardinality(cycles') <= BagCardinality(cycles)]_vars

\* A call is in flight while a file is selected and the prompt is non-empty:
\* only isLoading keeps the button disabled.
C2_Witness ==
    /\ isLoading
    /\ InStage("calling") = 1
    /\ originalImageFile # None
    /\ prompt # ""

\* C3: in every state of the rendered application, isLoading implies that
\* neither a result nor an error is held.
C3_BusyExcludesOutcome ==
    isLoading => (editedImageData = None /\ error = None)

\* Busy, after a file selection made during the busy window: the selected
\* file is not the one the suspended invocation was started with.
C3_Witness ==
    /\ isLoading
    /\ \E c \in BagToSet(cycles) : Some(c.file) # originalImageFile

\* C4: a result and an error message are never both held.
C4_AtMostOneOutcome ==
    ~(editedImageData # None /\ error # None)

\* C5: when the outbound call of the suspended invocation c returns the
\* payload p, the step ends in Success: isLoading is false, no error is
\* held, and the result is "data:" + mimeType + ";base64," + p with the
\* mimeType the encoder produced for the file c was started with.
C5_SuccessResult ==
    [][\A c \in BagToSet(cycles) : \A p \in ReturnedPayloads :
          CallResolves(c, p)
          => /\ isLoading' = FALSE
             /\ error' = None
             /\ editedImageData' =
                  Some(<<"d", "a", "t", "a", ":">>
                       \o FileToGenerativePart(c.file).value.mimeType
                       \o <<";", "b", "a", "s", "e", "6", "4", ",">>
                       \o p)
      ]_vars

\* Success: the result built from the jpeg file's MIME type and the returned
\* payload is held, with no error and not busy.
C5_Witness ==
    /\ ~isLoading
    /\ error = None
    /\ editedImageData = Some(DataUrl(<<"j">>, <<"r">>))

\* What a rejection's message is when it is non-empty, and the generic text
\* otherwise.
MessageOrGeneric(e) ==
    IF e.message # None /\ e.message # Some("")
    THEN e.message[1]
    ELSE "An unknown error occurred while communicating with the AI."

\* C6: when the encoder or the outbound call of the suspended invocation c
\* rejects with e, the step ends in Failed: isLoading is false, no result is
\* held, and error is e's message if it has a non-empty one and the generic
\* text otherwise.
C6_FailureMessage ==
    [][\A c \in BagToSet(cycles) :
          /\ (EncoderSettles(c) /\ FileToGenerativePart(c.file).settled = "reject")
             => /\ isLoading' = FALSE
                /\ editedImageData' = None
                /\ error' = Some(MessageOrGeneric(FileToGenerativePart(c.file).error))
          /\ \A e \in ServiceErrors :
                CallRejects(c, e)
                => /\ isLoading' = FALSE
                   /\ editedImageData' = None
                   /\ error' = Some(MessageOrGeneric(e))
      ]_vars

\* Failed with the generic text: a rejection without a usable message has
\* been caught.
C6_Witness ==
    /\ ~isLoading
    /\ editedImageData = None
    /\ cycles = EmptyBag
    /\ error = Some(UnknownErrorMsg)

\* The step ends the suspended invocation c.
EndsCycle(c) == BagIn(c, cycles) /\ cycles' = cycles (-) One(c)

\* The step ends a cycle in Failed: a suspended invocation's error appears.
FailsNow == cycles # EmptyBag /\ error = None /\ error' # None

\* C7 without its last clause: a step that ends a cycle in Failed leaves the
\* file and the prompt as they were and leaves no invocation behind to
\* retry; a new invocation is started only by a generate action on a
\* selected file and non-empty prompt, one at a time, and that step clears
\* error and result and sets isLoading; an outbound call is issued only by
\* an invocation waiting for the encoder, which stops waiting for it, so no
\* invocation issues a second call.
C7_NoCorruptionNoRetry ==
    /\ [][FailsNow
           => /\ originalImageFile' = originalImageFile
              /\ prompt' = prompt
              /\ originalImageDataUrl' = originalImageDataUrl
              /\ cycles' = EmptyBag
              /\ ~isLoading'
         ]_vars
    /\ [][BagCardinality(cycles') > BagCardinality(cycles)
           => /\ originalImageFile # None /\ prompt # ""
              /\ BagCardinality(cycles') = BagCardinality(cycles) + 1
              /\ InStage("reading")' = InStage("reading") + 1
              /\ InStage("calling")' = InStage("calling")
              /\ isLoading' /\ error' = None /\ editedImageData' = None
         ]_vars
    /\ [][InStage("calling")' > InStage("calling")
           => /\ InStage("calling")' = InStage("calling") + 1
              /\ InStage("reading")' = InStage("reading") - 1
         ]_vars

\* C7 as stated: besides the above, every valid generate action issues
\* exactly one outbound call, so every cycle that ends has issued its call.
C7_ExactlyOneCall ==
    /\ C7_NoCorruptionNoRetry
    /\ [][\A c \in BagToSet(cycles) : EndsCycle(c) => c.stage = "calling"]_vars

\* C7 as amended: a cycle that ends has issued its one call exactly when the
\* encoder resolves for the file it was started with; when the encoder
\* rejects, the cycle ends in Failed without a call.
C7_AtMostOneCall ==
    /\ C7_NoCorruptionNoRetry
    /\ [][\A c \in BagToSet(cycles) :
             EndsCycle(c)
             => /\ (c.stage = "calling")
                     <=> (FileToGenerativePart(c.file).settled = "resolve")
                /\ (c.stage = "reading") => error' # None
         ]_vars

\* Failed without a call: the encoder rejected the empty file, nothing is
\* in flight, and the file and the prompt are still there for a retry.
C7_Witness ==
    /\ originalImageFile = Some(FileEmpty)
    /\ prompt # ""
    /\ ~isLoading
    /\ error = Some(InvalidFormatMsg)
    /\ editedImageData = None
    /\ cycles = EmptyBag

\* C8: a step that replaces the selected file while an invocation is
\* suspended clears result and error and leaves isLoading and the suspended
\* invocation as they were; and whenever a suspended invocation ends, its
\* outcome is written whatever the selected file is: isLoading is cleared,
\* and a returned payload is stored with the MIME type of the file the
\* invocation was started with.
C8_StaleOutcomeWritten ==
    /\ [][(cycles # EmptyBag /\ originalImageFile' # originalImageFile)
           => /\ editedImageData' = None
              /\ error' = None
              /\ isLoading' = isLoading
              /\ cycles' = cycles
         ]_vars
    /\ [][\A c \in BagToSet(cycles) :
             EndsCycle(c)
             => /\ ~isLoading'
                /\ \/ error' # None /\ editedImageData' = None
                   \/ /\ error' = None
                      /\ \E p \in ReturnedPayloads :
                            editedImageData' =
                              Some(DataUrl(FileToGenerativePart(c.file).value.mimeType, p))
         ]_vars

\* The stale result: the result was built from the png file while the jpeg
\* file is the selected one.
C8_Witness ==
    /\ originalImageFile = Some(FileJpeg)
    /\ editedImageData = Some(DataUrl(<<"p">>, <<"r">>))
    /\ ~isLoading

\* C9: the Download button is rendered only when not busy, with no error
\* and with a result, which then is a data URL built from a returned
\* payload; a step that changes the downloaded link is taken with a result
\* held, makes the link that result, and changes nothing else, so
\* handleDownload without a result does nothing.
C9_DownloadOnlyResult ==
    /\ [](DownloadOffered
           => /\ ~isLoading /\ error = None /\ editedImageData # None
              /\ \E f \in Files : \E p \in ReturnedPayloads :
                    /\ FileToGenerativePart(f).settled = "resolve"
                    /\ editedImageData =
                         Some(DataUrl(FileToGenerativePart(f).value.mimeType, p)))
    /\ [][link' # link
           => /\ editedImageData # None
              /\ link' = editedImageData
              /\ session' = session
              /\ cycles' = cycles
              /\ previewReads' = previewReads
         ]_vars

\* A download has happened: the link is the displayed result.
C9_Witness ==
    /\ DownloadOffered
    /\ link # None
    /\ link = editedImageData

\* C10: for every read result "data:<mime>;base64,<payload>" with non-empty
\* <mime> and <payload>, the encoder resolves with exactly
\* {mimeType: <mime>, data: <payload>}: it never rejects such a file, and
\* the call issued for it carries <mime> and the whole <payload>.
C10_WellFormedParsed ==
    \A m \in Mimes : \A p \in Payloads :
       LET f == [name |-> "in", read |-> LoadOf(DataUrl(m, p))]
       IN /\ originalImageFile = Some(f)
               => error \notin {Some(ReadFailedMsg), Some(InvalidFormatMsg),
                                Some(NoMimeMsg)}
          /\ \A c \in BagToSet(cycles) :
               (c.file = f /\ c.stage = "calling")
               => c.imagePart = Some([mimeType |-> m, data |-> p])

\* The string has a comma.
HasComma(s) == \E i \in 1..Len(s) : s[i] = ","

\* The part of the string before its first comma (the whole string when it
\* has none).
HeaderOf(s) ==
    IF HasComma(s)
    THEN SubSeq(s, 1, (CHOOSE k \in 1..Len(s) :
                          s[k] = "," /\ \A j \in 1..(k - 1) : s[j] # ",") - 1)
    ELSE s

\* The header has a ':' and, later, a ';' with something between them.
HasMimeSection(h) ==
    \E i \in 1..Len(h) : \E j \in 1..Len(h) :
       h[i] = ":" /\ h[j] = ";" /\ j > i + 1

\* The read result is a string that has a comma and a MIME section in its
\* header.
Parsable(read) ==
    /\ read.ev = "load"
    /\ read.result # None
    /\ HasComma(read.result[1])
    /\ HasMimeSection(HeaderOf(read.result[1]))

EncoderMessages == {Some(ReadFailedMsg), Some(InvalidFormatMsg), Some(NoMimeMsg)}

\* C11: when the encoder settles for an invocation whose read result lacks
\* a comma, or whose header lacks a ':...;' section with non-empty content,
\* it rejects: the invocation ends with an error and without a call.  When
\* it resolves, the invocation goes on with a mimeType and a data that are
\* both non-empty.  Either way the invocation stops waiting for the
\* encoder, and exactly one of the two happens.
C11_MalformedRejected ==
    [][\A c \in BagToSet(cycles) :
          (EncoderSettles(c) /\ c.stage = "reading")
          => /\ InStage("reading")' = InStage("reading") - 1
             /\ \/ /\ InStage("calling")' = InStage("calling")
                   /\ cycles' = cycles (-) One(c)
                   /\ error' # None
                \/ /\ InStage("calling")' = InStage("calling") + 1
                   /\ error' = error
                   /\ Parsable(c.file.read)
                   /\ \E d \in BagToSet(cycles') :
                         /\ d.stage = "calling" /\ d.file = c.file
                         /\ d.imagePart # None
                         /\ d.imagePart[1].mimeType # << >>
                         /\ d.imagePart[1].data # << >>
      ]_vars

\* The encoder has rejected a read result that has a comma but no MIME
\* section in its header.
C11_Witness ==
    /\ error = Some(NoMimeMsg)
    /\ cycles = EmptyBag
    /\ originalImageFile # None
    /\ originalImageFile[1].read.result # None
    /\ HasComma(originalImageFile[1].read.result[1])
    /\ ~HasMimeSection(HeaderOf(originalImageFile[1].read.result[1]))

\* C12: when the encoder fails for an invocation (the file cannot be read,
\* or its read result is malformed), no call is issued, the session stops
\* being busy and the error shown is one of the encoder's own messages
\* (failed read, invalid data URL format, MIME type not extractable), not
\* the generic fallback.
C12_DescriptiveEncodingError ==
    [][\A c \in BagToSet(cycles) :
          (c.stage = "reading" /\ EndsCycle(c))
          => /\ InStage("calling")' = InStage("calling")
             /\ ~isLoading'
             /\ error' \in EncoderMessages
      ]_vars

\* C13: a busy window is closed by the settling of its own invocation and
\* by nothing else.  A step that ends an invocation (the encoder rejected,
\* or the call returned or threw) leaves the session not busy; a step that
\* takes the session from busy to not busy ends an invocation, so a file
\* selection or an edit of the prompt never does it and the session stays
\* busy for as long as the call is pending; and when the encoder and the
\* call do settle, busy leads to not busy.
C13_BusyClosedBySettling ==
    /\ [][BagCardinality(cycles') < BagCardinality(cycles) => ~isLoading']_vars
    /\ [][(isLoading /\ ~isLoading')
            => \E c \in BagToSet(cycles) : EndsCycle(c)]_vars
    /\ [][(isLoading /\ (SelectFile \/ EditPrompt \/ PreviewEnds))
            => isLoading']_vars
    /\ isLoading ~> ~isLoading

\* The session is still busy with an invocation after another file has
\* been selected and the prompt has been emptied.
C13_Witness ==
    /\ isLoading
    /\ prompt = ""
    /\ \E c \in BagToSet(cycles) :
          /\ c.stage = "calling"
          /\ c.prompt # ""
          /\ originalImageFile # Some(c.file)

\* C14: the request is a snapshot taken at the generate action.  The
\* invocation started by Generate holds the file and the prompt of that
\* moment; selecting another file or editing the prompt changes no
\* suspended invocation; the call is issued with the encoding of the
\* invocation's own file and with its own prompt; and the result is built
\* with the MIME type of that file.
C14_RequestIsSnapshot ==
    /\ [][BagCardinality(cycles') > BagCardinality(cycles)
            => cycles' = cycles (+) One([file |-> originalImageFile[1],
                                         prompt |-> prompt,
                                         stage |-> "reading",
                                         imagePart |-> None])]_vars
    /\ [][(originalImageFile' # originalImageFile \/ prompt' # prompt)
            => cycles' = cycles]_vars
    /\ [][\A c \in BagToSet(cycles) :
            (c.stage = "reading" /\ InStage("calling")' > InStage("calling")
               /\ InStage("reading")' = InStage("reading") - 1
               /\ ~BagIn(c, cycles'))
            => /\ FileToGenerativePart(c.file).settled = "resolve"
               /\ cycles' = (cycles (-) One(c))
                     (+) One([file |-> c.file, prompt |-> c.prompt,
                              stage |-> "calling",
                              imagePart |->
                                 Some(FileToGenerativePart(c.file).value)])
         ]_vars
    /\ [](\A c \in BagToSet(cycles) :
            c.stage = "calling"
            => c.imagePart = Some(FileToGenerativePart(c.file).value))
    /\ [][\A c \in BagToSet(cycles) :
            (c.stage = "calling" /\ EndsCycle(c) /\ editedImageData' # None)
            => \E p \in ReturnedPayloads :
                  editedImageData' =
                     Some(DataUrl(FileToGenerativePart(c.file).value.mimeType, p))
         ]_vars

\* The call for the png file and the prompt "neon" is pending while the
\* jpeg file is the selected one and the prompt has been emptied.
C14_Witness ==
    /\ originalImageFile = Some(FileJpeg)
    /\ prompt = ""
    /\ cycles = One([file |-> FilePng, prompt |-> "neon", stage |-> "calling",
                     imagePart |-> Some([mimeType |-> <<"p">>,
                                         data |-> <<"x">>])])

\* C15: once no preview read is pending, the preview is the read result of
\* the selected file.
C15_PreviewOfSelectedFile ==
    (previewReads = EmptyBag /\ originalImageFile # None)
    => originalImageDataUrl = originalImageFile[1].read.result

\* C16: frame conditions of the actions other than Generate.  A step that
\* edits the prompt changes nothing but the prompt: the result, the error,
\* isLoading and the selected file stay as they are.  A step that selects
\* a file leaves the prompt and isLoading unchanged.  Once a file is
\* selected, a file stays selected.
C16_FrameConditions ==
    /\ [][(EditPrompt \/ prompt' # prompt)
            => UNCHANGED <<originalImageFile, originalImageDataUrl,
                           editedImageData, isLoading, error, previewReads,
                           cycles, link>>]_vars
    /\ [][(SelectFile \/ originalImageFile' # originalImageFile)
            => (prompt' = prompt /\ isLoading' = isLoading)]_vars
    /\ [][originalImageFile # None => originalImageFile' # None]_vars

\* A result is shown for the selected png file and the prompt that was
\* submitted has been emptied.
C16_Witness ==
    /\ originalImageFile = Some(FilePng)
    /\ editedImageData = Some(DataUrl(<<"p">>, <<"r">>))
    /\ error = None
    /\ prompt = ""
    /\ cycles = EmptyBag

====
